---- MODULE Spec2Model ----
(***************************************************************************)
(* A model of the client-side state layer of the dataset viewer:           *)
(*   - HTTPSSocket, the long-polling socket (selectors module),            *)
(*   - the view / filterStages / filterStage setters,                      *)
(*   - the labelFilters predicate and labelConfidenceBounds,               *)
(*   - the Indicator's pointer-move and drag handlers.                     *)
(* Each part has its own specification; the variables of the other parts   *)
(* stay at their initial values.                                           *)
(***************************************************************************)
EXTENDS Integers, Sequences, FiniteSets, TLC

VARIABLES
    \* ---- HTTPSSocket ----
    readyState,   \* this.readyState
    timeout,      \* this.timeout (ms)
    interval,     \* this.interval: id of the timer last returned by setInterval
    timers,       \* the host's active interval timers: id -> period (ms)
    events,       \* this.events: event type -> listener set, or undefined
    polls,        \* gather() fetches in flight
    rejected,     \* gather() promise chains rejected, .catch callback pending
    pushes,       \* send() fetches in flight
    pulls,        \* execute()'s "mode=pull" fetches in flight
    fired,        \* event types dispatched (forEach on the listener set) by the last step
    evlog,        \* the last two 'open'/'close' events dispatched, oldest first
    skippedClose, \* since the last 'open' dispatch, an OPEN -> CLOSED transition
                  \* found no 'close' listener set and dispatched nothing
    step,         \* the callback that ran last
    \* ---- view / filterStages / filterStage setters ----
    stateDescription,             \* atoms.stateDescription: [view, filters]
    datasetStatsLoading,          \* atoms.datasetStatsLoading
    extendedDatasetStatsLoading,  \* atoms.extendedDatasetStatsLoading
    nSent,        \* socket.send calls made by the setters
    lastMsg,      \* the message of the most recent socket.send call
    selCall,      \* the setter called last, with its arguments
    \* ---- labelFilters ----
    lfRange,      \* filterLabelConfidenceRange(label)
    lfNone,       \* filterLabelIncludeNoConfidence(label)
    lfInclude,    \* filterIncludeLabels(label)
    lfSample,     \* the object s the predicate is applied to
    lfResult,     \* [done, val]: the predicate's answer, once applied
    \* ---- labelConfidenceBounds ----
    datasetStats, \* atoms.datasetStats
    cbResult,     \* [done, val]: labelConfidenceBounds(label), once read
    \* ---- Indicator ----
    mainSize,     \* atoms.mainSize: <<width, height>>
    y,            \* the spring's target y
    indStep,      \* the Indicator event handled last
    isDraggingIndicator,       \* atoms.isDraggingIndicator
    isDraggingIndicatorValue,  \* the flag as read by the component's last render
    dragging      \* the gesture library's state: a drag of the Indicator is in progress

sockVars == <<readyState, timeout, interval, timers, events, polls, rejected,
              pushes, pulls, fired, evlog, skippedClose, step>>

selVars == <<stateDescription, datasetStatsLoading, extendedDatasetStatsLoading,
             nSent, lastMsg, selCall>>

lfVars == <<lfRange, lfNone, lfInclude, lfSample, lfResult>>

cbVars == <<datasetStats, cbResult>>

indVars == <<mainSize, y, indStep, isDraggingIndicator, isDraggingIndicatorValue,
             dragging>>

vars == <<sockVars, selVars, lfVars, cbVars, indVars>>

----------------------------------------------------------------------------
(* Bounds of the model *)

MaxInflight == 2    \* gather() polls in flight or awaiting their catch
MaxPushes == 1      \* send() requests in flight
MaxPulls == 1       \* pull requests in flight
MaxMsgs == 1        \* messages in one response

----------------------------------------------------------------------------
(* HTTPSSocket *)

\* WebSocket.CONNECTING, WebSocket.OPEN, WebSocket.CLOSED
CONNECTING == 0
OPEN == 1
CLOSED == 3

openTimeout == 2000
initTimeout == 2000
maxTimeout == 5000

EventTypes == {"open", "close", "message"}
Handlers == {"h1"}

\* A value of this.events[name]: undefined, or a Set of handlers.
NoListeners == [def |-> FALSE, hs |-> {}]

Min(a, b) == IF a <= b THEN a ELSE b
Max(a, b) == IF a >= b THEN a ELSE b

\* setInterval: a fresh timer id (the smallest one not active).
FreshId(ts) ==
    CHOOSE i \in 1..(Cardinality(DOMAIN ts) + 1) :
        i \notin DOMAIN ts /\ \A j \in 1..(i - 1) : j \in DOMAIN ts

SetInterval(ts, period) == ts @@ (FreshId(ts) :> period)
\* A variant of ClearInterval: the old timer is left running.
ClearIntervalNoop(ts, id) == ts


ClearInterval(ts, id) == [i \in DOMAIN ts \ {id} |-> ts[i]]

\* The timer replacement of execute() and of gather()'s catch:
\* clearInterval(this.interval); this.interval = setInterval(..., period).
ReplaceTimer(ts, id, period) == SetInterval(ClearInterval(ts, id), period)
\* Variants of NextTimeout: no backoff at all; a backoff without its cap.
NextTimeoutFixed(t) == t

NextTimeoutUncapped(t) == t * 2

\* Math.min(this.timeout * 2, 5000)
NextTimeout(t) == Min(t * 2, maxTimeout)

\* The log of the last two open/close dispatches after dispatching e.
Logged(log, e) == <<log[2], e>>

\* execute() throws a TypeError at this.events.open.forEach before changing
\* anything: readyState is CLOSED or CONNECTING and no 'open' set exists.
ExecuteThrowsAtOpen ==
    /\ readyState \in {CLOSED, CONNECTING}
    /\ ~events["open"].def
\* A variant of ExecuteOpens: execute() without its readyState guard.
ExecuteOpensAlways == TRUE

\* The guard of execute(): the socket is not yet (or no longer) open.
ExecuteOpens == readyState \in {CLOSED, CONNECTING}

\* execute(messages), when it does not throw at the 'open' dispatch.
\* hasList: messages is a list (else messages.forEach throws after
\* readyState was set); n: its length, one pull fetch per message.
Execute(hasList, n) ==
    /\ IF ExecuteOpens
       THEN /\ fired' = {"open"}
            /\ evlog' = Logged(evlog, "open")
            /\ skippedClose' = FALSE
            /\ timeout' = openTimeout
            /\ timers' = ReplaceTimer(timers, interval, openTimeout)
            /\ interval' = FreshId(ClearInterval(timers, interval))
       ELSE /\ fired' = {}
            /\ UNCHANGED <<evlog, skippedClose, timeout, timers, interval>>
    /\ readyState' = OPEN
    /\ pulls' = IF hasList THEN pulls + n ELSE pulls

\* constructor + connect(): one gather() in flight, one timer of period timeout.
SockInit ==
    /\ readyState = CONNECTING
    /\ timeout = initTimeout
    /\ timers = SetInterval(<<>>, initTimeout)
    /\ interval = FreshId(<<>>)
    /\ events = [t \in EventTypes |-> NoListeners]
    /\ polls = 1
    /\ rejected = 0
    /\ pushes = 0
    /\ pulls = 0
    /\ fired = {}
    /\ evlog = <<"none", "none">>
    /\ skippedClose = FALSE
    /\ step = "connect"

\* A timer fires: () => this.gather().
TimerTick(id) ==
    /\ id \in DOMAIN timers
    /\ polls + rejected < MaxInflight
    /\ polls' = polls + 1
    /\ fired' = {}
    /\ step' = "tick"
    /\ UNCHANGED <<readyState, timeout, interval, timers, events, rejected,
                   pushes, pulls, evlog, skippedClose>>
    /\ UNCHANGED <<selVars, lfVars, cbVars, indVars>>

\* A poll's response parsed to an object: .then(({messages}) => this.execute(messages)).
GatherResolve(hasList, n) ==
    /\ polls > 0
    /\ pulls + n <= MaxPulls
    /\ polls' = polls - 1
    /\ step' = IF hasList THEN "gatherOk" ELSE "gatherNoList"
    /\ IF ExecuteThrowsAtOpen
       THEN /\ rejected' = rejected + 1
            /\ fired' = {}
            /\ UNCHANGED <<readyState, timeout, interval, timers, pulls, evlog,
                           skippedClose>>
       ELSE /\ Execute(hasList, n)
            /\ rejected' = IF hasList THEN rejected ELSE rejected + 1
    /\ UNCHANGED <<events, pushes>>
    /\ UNCHANGED <<selVars, lfVars, cbVars, indVars>>

\* A poll's fetch fails, or its body is not JSON, or not an object.
GatherReject ==
    /\ polls > 0
    /\ polls' = polls - 1
    /\ rejected' = rejected + 1
    /\ fired' = {}
    /\ step' = "gatherReject"
    /\ UNCHANGED <<readyState, timeout, interval, timers, events, pushes,
                   pulls, evlog, skippedClose>>
    /\ UNCHANGED <<selVars, lfVars, cbVars, indVars>>

\* The .catch callback of gather().
GatherCatch ==
    /\ rejected > 0
    /\ rejected' = rejected - 1
    /\ IF readyState = OPEN /\ events["close"].def
       THEN /\ fired' = {"close"}
            /\ evlog' = Logged(evlog, "close")
       ELSE /\ fired' = {}
            /\ UNCHANGED evlog
    /\ skippedClose' = (skippedClose \/ (readyState = OPEN /\ ~events["close"].def))
    /\ readyState' = CLOSED
    /\ timeout' = NextTimeout(timeout)
    /\ timers' = ReplaceTimer(timers, interval, NextTimeout(timeout))
    /\ interval' = FreshId(ClearInterval(timers, interval))
    /\ step' = "catch"
    /\ UNCHANGED <<events, polls, pushes, pulls>>
    /\ UNCHANGED <<selVars, lfVars, cbVars, indVars>>

\* send(message): a push fetch is started.
Send ==
    /\ pushes < MaxPushes
    /\ pushes' = pushes + 1
    /\ fired' = {}
    /\ step' = "send"
    /\ UNCHANGED <<readyState, timeout, interval, timers, events, polls,
                   rejected, pulls, evlog, skippedClose>>
    /\ UNCHANGED <<selVars, lfVars, cbVars, indVars>>

\* A push's response parsed: messages && this.execute(messages);
\* type && this.events.message.forEach(...). A throw rejects the chain,
\* which nothing catches.
SendResolve(hasMessages, n, hasType) ==
    /\ pushes > 0
    /\ pulls + n <= MaxPulls
    /\ pushes' = pushes - 1
    /\ step' = "sendResolve"
    /\ IF hasMessages /\ ~ExecuteThrowsAtOpen
       THEN /\ Execute(TRUE, n)
       ELSE /\ fired' = IF ~hasMessages /\ hasType /\ events["message"].def
                        THEN {"message"} ELSE {}
            /\ UNCHANGED <<readyState, timeout, interval, timers, pulls, evlog,
                           skippedClose>>
    /\ UNCHANGED <<events, polls, rejected>>
    /\ UNCHANGED <<selVars, lfVars, cbVars, indVars>>

\* A push's fetch fails or its body is not JSON: an unhandled rejection.
SendReject ==
    /\ pushes > 0
    /\ pushes' = pushes - 1
    /\ fired' = {}
    /\ step' = "sendReject"
    /\ UNCHANGED <<readyState, timeout, interval, timers, events, polls,
                   rejected, pulls, evlog, skippedClose>>
    /\ UNCHANGED <<selVars, lfVars, cbVars, indVars>>

\* A pull's response (or failure): the 'message' handlers get the data.
PullResolve(ok) ==
    /\ pulls > 0
    /\ pulls' = pulls - 1
    /\ fired' = IF ok /\ events["message"].def THEN {"message"} ELSE {}
    /\ step' = "pull"
    /\ UNCHANGED <<readyState, timeout, interval, timers, events, polls,
                   rejected, pushes, evlog, skippedClose>>
    /\ UNCHANGED <<selVars, lfVars, cbVars, indVars>>

AddEventListener(eventType, handler) ==
    /\ events' = [events EXCEPT ![eventType] =
                     [def |-> TRUE, hs |-> @.hs \cup {handler}]]
    /\ fired' = {}
    /\ step' = "addEventListener"
    /\ UNCHANGED <<readyState, timeout, interval, timers, polls, rejected,
                   pushes, pulls, evlog, skippedClose>>
    /\ UNCHANGED <<selVars, lfVars, cbVars, indVars>>

\* this.events[eventType].delete(handler): throws when no set exists.
RemoveEventListener(eventType, handler) ==
    /\ events[eventType].def
    /\ events' = [events EXCEPT ![eventType] =
                     [def |-> TRUE, hs |-> @.hs \ {handler}]]
    /\ fired' = {}
    /\ step' = "removeEventListener"
    /\ UNCHANGED <<readyState, timeout, interval, timers, polls, rejected,
                   pushes, pulls, evlog, skippedClose>>
    /\ UNCHANGED <<selVars, lfVars, cbVars, indVars>>

SockNext ==
    \/ \E id \in DOMAIN timers : TimerTick(id)
    \/ \E hasList \in BOOLEAN, n \in 0..MaxMsgs :
          (hasList \/ n = 0) /\ GatherResolve(hasList, n)
    \/ GatherReject
    \/ GatherCatch
    \/ Send
    \/ \E hasMessages \in BOOLEAN, n \in 0..MaxMsgs, hasType \in BOOLEAN :
          (hasMessages \/ n = 0) /\ SendResolve(hasMessages, n, hasType)
    \/ SendReject
    \/ \E ok \in BOOLEAN : PullResolve(ok)
    \/ \E t \in EventTypes, h \in Handlers : AddEventListener(t, h)
    \/ \E t \in EventTypes, h \in Handlers : RemoveEventListener(t, h)

----------------------------------------------------------------------------
(* JavaScript values of the filter and bounds arithmetic.  Numbers are in  *)
(* thousandths (0.005 is 5, 0.01 is 10, 1 is 1000).                        *)

Num(n) == [k |-> "num", v |-> n]
Null == [k |-> "null", v |-> 0]
Undefined == [k |-> "undefined", v |-> 0]
NaN == [k |-> "nan", v |-> 0]

\* ToNumber: null is 0, undefined is NaN.
ToNumber(x) ==
    CASE x.k = "num" -> x
      [] x.k = "null" -> Num(0)
      [] OTHER -> NaN

\* a <= b and a < b: false when either side converts to NaN.
JsLeq(a, b) ==
    /\ ToNumber(a).k = "num"
    /\ ToNumber(b).k = "num"
    /\ ToNumber(a).v <= ToNumber(b).v

JsLt(a, b) ==
    /\ ToNumber(a).k = "num"
    /\ ToNumber(b).k = "num"
    /\ ToNumber(a).v < ToNumber(b).v

\* a + d for a number d (d < 0 for a subtraction).
JsAdd(a, d) == IF ToNumber(a).k = "num" THEN Num(ToNumber(a).v + d) ELSE NaN

\* a === b
StrictEq(a, b) == a.k = b.k /\ a.k # "nan" /\ (a.k = "num" => a.v = b.v)

\* Number(x.toFixed(2)): the nearest hundredth, the larger magnitude on a tie.
ToFixed2(x) ==
    IF x.k # "num" THEN x
    ELSE LET a == IF x.v < 0 THEN 0 - x.v ELSE x.v
             r == ((a + 5) \div 10) * 10
         IN  Num(IF x.v < 0 THEN 0 - r ELSE r)

----------------------------------------------------------------------------
(* labelFilters: the predicate built for one label path *)

tolerance == 5

\* range[0] - 0.005 <= s.confidence && s.confidence <= range[1] + 0.005
InRange(range, s) ==
    /\ JsLeq(JsAdd(range[1], 0 - tolerance), s.confidence)
    /\ JsLeq(s.confidence, JsAdd(range[2], tolerance))
\* A variant of NoConfidence: the flag alone, whatever the confidence.
NoConfidenceAlways(none, s) == none

\* none && s.confidence === undefined
NoConfidence(none, s) == none /\ StrictEq(s.confidence, Undefined)

\* include.length === 0 || include.includes(s.label)
IsIncluded(include, s) ==
    Len(include) = 0 \/ \E i \in 1..Len(include) : include[i] = s.label

\* filters[label](s)
LabelFilter(range, none, include, s) ==
    (InRange(range, s) \/ NoConfidence(none, s)) /\ IsIncluded(include, s)

Ranges == {<<lo, hi>> : lo \in {Null, Num(0), Num(100)},
                        hi \in {Null, Num(900), Num(1000)}}
Labels == {"cat", "dog", "bird"}
Includes == {<<>>, <<"cat">>, <<"cat", "dog">>}
Confidences ==
    {Undefined, Null} \cup
    {Num(c) : c \in {0 - 6, 0 - 5, 0, 5, 6, 94, 95, 96, 500, 904, 905, 906,
                     1000, 1005, 1006}}
Samples == {[confidence |-> c, label |-> l] : c \in Confidences, l \in Labels}

NotApplied == [done |-> FALSE, val |-> FALSE]

LfInit ==
    /\ lfRange \in Ranges
    /\ lfNone \in BOOLEAN
    /\ lfInclude \in Includes
    /\ lfSample \in Samples
    /\ lfResult = NotApplied

\* The predicate of the label path is applied to an object.
ApplyLabelFilter(s) ==
    /\ lfSample' = s
    /\ lfResult' = [done |-> TRUE, val |-> LabelFilter(lfRange, lfNone, lfInclude, s)]
    /\ UNCHANGED <<lfRange, lfNone, lfInclude>>
    /\ UNCHANGED <<sockVars, selVars, cbVars, indVars>>

LfNext == \E s \in Samples : ApplyLabelFilter(s)

----------------------------------------------------------------------------
(* labelConfidenceBounds *)

CONFIDENCE_BOUNDS_CLS == "fiftyone.core.aggregations.ConfidenceBoundsResult"
BOUNDS_CLS == "fiftyone.core.aggregations.BoundsResult"

MaxStats == 2       \* entries of datasetStats

\* The two clamps: [0 < bounds[0] ? 0 : bounds[0], 1 > bounds[1] ? 1 : bounds[1]]
ClampLower(b) == IF JsLt(Num(0), b) THEN Num(0) ELSE b
ClampUpper(b) == IF JsLt(b, Num(1000)) THEN Num(1000) ELSE b

\* bounds[0] !== null && bounds[0] !== 0 ? Number((bounds[0] - 0.01).toFixed(2)) : bounds[0]
WidenLower(b) ==
    IF ~StrictEq(b, Null) /\ ~StrictEq(b, Num(0))
    THEN ToFixed2(JsAdd(b, 0 - 10)) ELSE b

\* bounds[1] !== null && bounds[1] !== 1 ? Number((bounds[1] + 0.01).toFixed(2)) : bounds[1]
WidenUpper(b) ==
    IF ~StrictEq(b, Null) /\ ~StrictEq(b, Num(1000))
    THEN ToFixed2(JsAdd(b, 10)) ELSE b

\* The value the reducer returns for a matching entry.
ConfidenceBoundsOf(bounds) ==
    <<WidenLower(ClampLower(bounds[1])), WidenUpper(ClampUpper(bounds[2]))>>

\* get(atoms.datasetStats).reduce(..., [null, null]): the last matching entry wins.
RECURSIVE ReduceBounds(_, _, _)
ReduceBounds(stats, label, acc) ==
    IF stats = <<>> THEN acc
    ELSE LET cur == Head(stats)
         IN  ReduceBounds(Tail(stats), label,
                 IF cur.name = label /\ cur.cls = CONFIDENCE_BOUNDS_CLS
                 THEN ConfidenceBoundsOf(cur.bounds) ELSE acc)

labelConfidenceBounds(stats, label) == ReduceBounds(stats, label, <<Null, Null>>)

\* Reported bounds: [null, null] for a field without values, else [min, max],
\* here with two decimals.
BoundGrid == {0 - 110, 0 - 100, 0, 250, 1000, 1100, 1110}
ReportedBounds ==
    {<<Null, Null>>} \cup
    {<<Num(p[1]), Num(p[2])>> : p \in {q \in BoundGrid \X BoundGrid : q[1] <= q[2]}}
StatNames == {"predictions", "uniqueness"}
StatEntries ==
    {[name |-> nm, cls |-> c, bounds |-> b] :
        nm \in StatNames, c \in {CONFIDENCE_BOUNDS_CLS, BOUNDS_CLS}, b \in ReportedBounds}

CbInit ==
    /\ datasetStats = <<>>
    /\ cbResult = [done |-> FALSE, label |-> "predictions", val |-> <<Null, Null>>]

\* The server's statistics arrive entry by entry.
PushStat(e) ==
    /\ Len(datasetStats) < MaxStats
    /\ datasetStats' = Append(datasetStats, e)
    /\ cbResult' = [cbResult EXCEPT !.done = FALSE]
    /\ UNCHANGED <<sockVars, selVars, lfVars, indVars>>

\* A component reads labelConfidenceBounds(label).
ReadConfidenceBounds(label) ==
    /\ cbResult' = [done |-> TRUE, label |-> label,
                    val |-> labelConfidenceBounds(datasetStats, label)]
    /\ UNCHANGED datasetStats
    /\ UNCHANGED <<sockVars, selVars, lfVars, indVars>>

CbNext ==
    \/ \E e \in StatEntries : PushStat(e)
    \/ \E l \in StatNames : ReadConfidenceBounds(l)

----------------------------------------------------------------------------
(* Indicator: the pointer-move and drag handlers *)

MaxHeight == 45     \* mainSize[1] ranges over 0..MaxHeight
PyMargin == 20      \* the pointer ranges over -PyMargin..MaxHeight + PyMargin

handleHeight == 35
pointerOffset == 16
\* A variant of NewY: the clamp without its lower limit.
NewYNoFloor(height, py) == Min(height - handleHeight, py - pointerOffset)

\* Math.min(mainSizeValue[1] - 35, Math.max(py - 16, 0))
NewY(height, py) == Min(height - handleHeight, Max(py - pointerOffset, 0))

\* The first render: no drag, the flag read as the atom holds it (false).
DragInit ==
    /\ isDraggingIndicator = FALSE
    /\ isDraggingIndicatorValue = FALSE
    /\ dragging = FALSE

IndInit ==
    /\ mainSize \in {<<0, h>> : h \in 0..MaxHeight}
    /\ y = 0
    /\ indStep = "mount"
    /\ DragInit

\* The main area is resized: atoms.mainSize is set and the component re-renders.
Resize(h) ==
    /\ mainSize' = <<mainSize[1], h>>
    /\ indStep' = "resize"
    /\ isDraggingIndicatorValue' = isDraggingIndicator
    /\ UNCHANGED <<y, isDraggingIndicator, dragging>>
    /\ UNCHANGED <<sockVars, selVars, lfVars, cbVars>>

\* onMove: gestureHandler({xy: [_, py]})
GestureHandler(py) ==
    /\ y' = NewY(mainSize[2], py)
    /\ indStep' = "move"
    /\ UNCHANGED <<mainSize, isDraggingIndicator, isDraggingIndicatorValue, dragging>>
    /\ UNCHANGED <<sockVars, selVars, lfVars, cbVars>>

\* toggleDrag(e): setIsDraggingIndicator(!isDraggingIndicatorValue), the
\* negation of the value the last render read, not of the atom's value now.
ToggleDrag ==
    isDraggingIndicator' = ~isDraggingIndicatorValue

\* onDragStart: toggleDrag
DragStart ==
    /\ ~dragging
    /\ dragging' = TRUE
    /\ ToggleDrag
    /\ indStep' = "dragStart"
    /\ UNCHANGED <<mainSize, y, isDraggingIndicatorValue>>
    /\ UNCHANGED <<sockVars, selVars, lfVars, cbVars>>

\* onDragEnd: toggleDrag
DragEnd ==
    /\ dragging
    /\ dragging' = FALSE
    /\ ToggleDrag
    /\ indStep' = "dragEnd"
    /\ UNCHANGED <<mainSize, y, isDraggingIndicatorValue>>
    /\ UNCHANGED <<sockVars, selVars, lfVars, cbVars>>

\* The component renders again after the flag was set: useRecoilState reads it.
Render ==
    /\ isDraggingIndicatorValue # isDraggingIndicator
    /\ isDraggingIndicatorValue' = isDraggingIndicator
    /\ indStep' = "render"
    /\ UNCHANGED <<mainSize, y, isDraggingIndicator, dragging>>
    /\ UNCHANGED <<sockVars, selVars, lfVars, cbVars>>

IndNext ==
    \/ \E h \in 0..MaxHeight : Resize(h)
    \/ \E py \in (0 - PyMargin)..(MaxHeight + PyMargin) : GestureHandler(py)
    \/ DragStart
    \/ DragEnd
    \/ Render

----------------------------------------------------------------------------
(* The view, filterStages and filterStage setters *)

MaxSent == 3        \* socket.send calls made by the setters
MaxKeys == 2        \* keys of a filter object

\* A filter value: null, undefined, or an object, given by its keys in
\* insertion order with the literal each holds.
FNull == [t |-> "null", kv |-> <<>>]
FUndefined == [t |-> "undefined", kv |-> <<>>]
FObj(kv) == [t |-> "object", kv |-> kv]

Keys == {"none", "labels"}
Atoms == {"false", "undefined"}
KvSeqs ==
    {s \in UNION {[1..n -> Keys \X Atoms] : n \in 0..MaxKeys} :
        \A i, j \in DOMAIN s : i # j => s[i][1] # s[j][1]}
FilterValues == {FNull, FUndefined} \cup {FObj(kv) : kv \in KvSeqs}

Paths == {"predictions", "frames.objects"}
FilterMaps == UNION {[ps -> FilterValues] : ps \in SUBSET Paths}
Views == {<<>>, <<"Limit">>}

\* !value
Falsy(v) == v.t \in {"null", "undefined"}

\* The members of an object in JSON text: a key holding undefined is left out.
RECURSIVE JsonMembers(_, _)
JsonMembers(kv, first) ==
    IF kv = <<>> THEN <<>>
    ELSE IF Head(kv)[2] = "undefined" THEN JsonMembers(Tail(kv), first)
    ELSE (IF first THEN <<>> ELSE <<",">>)
         \o <<Head(kv)[1], ":", Head(kv)[2]>> \o JsonMembers(Tail(kv), FALSE)

\* JSON.stringify(v): undefined for undefined, else the text.
JsonStringify(v) ==
    CASE v.t = "undefined" -> [def |-> FALSE, text |-> <<>>]
      [] v.t = "null" -> [def |-> TRUE, text |-> <<"null">>]
      [] OTHER -> [def |-> TRUE, text |-> <<"{">> \o JsonMembers(v.kv, TRUE) \o <<"}">>]
\* A variant of SameJson: the values compared, not their serialisations.
SameValue(a, b) == a = b

\* JSON.stringify(value) === JSON.stringify(filters[path])
SameJson(a, b) == JsonStringify(a) = JsonStringify(b)

\* filters[path]
Lookup(filters, path) == IF path \in DOMAIN filters THEN filters[path] ELSE FUndefined

\* delete filters[path]
Delete(filters, path) == [q \in DOMAIN filters \ {path} |-> filters[q]]

\* filters[path] = value
Assign(filters, path, value) ==
    [q \in DOMAIN filters \cup {path} |-> IF q = path THEN value ELSE filters[q]]
\* A variant of NewViewState: the old state is not spread into the new one.
NewViewStateAlone(state, stages) == [view |-> stages, filters |-> <<>>]

\* { ...state, view: stages }
NewViewState(state, stages) == [state EXCEPT !.view = stages]

\* { ...get(atoms.stateDescription), filters }
NewFiltersState(state, filters) == [state EXCEPT !.filters = filters]

\* socket.send(packageMessage(type, data))
SocketSend(type, data) ==
    /\ nSent' = nSent + 1
    /\ lastMsg' = [type |-> type, data |-> data]

NoCall == [op |-> "none", path |-> "", value |-> FUndefined]

SelInit ==
    /\ stateDescription = [view |-> <<>>, filters |-> <<>>]
    /\ datasetStatsLoading = FALSE
    /\ extendedDatasetStatsLoading = FALSE
    /\ nSent = 0
    /\ lastMsg = [type |-> "none", data |-> <<>>]
    /\ selCall = NoCall

\* set(view, stages)
SetView(stages) ==
    /\ nSent < MaxSent
    /\ selCall' = [op |-> "view", path |-> "", value |-> FUndefined]
    /\ datasetStatsLoading' = TRUE
    /\ extendedDatasetStatsLoading' =
           IF DOMAIN stateDescription.filters # {} THEN TRUE
           ELSE extendedDatasetStatsLoading
    /\ stateDescription' = NewViewState(stateDescription, stages)
    /\ SocketSend("update", [state |-> NewViewState(stateDescription, stages)])
    /\ UNCHANGED <<sockVars, lfVars, cbVars, indVars>>

\* The body of the filterStages setter.
FilterStagesSetter(filters) ==
    /\ SocketSend("filters_update", [filters |-> filters])
    /\ extendedDatasetStatsLoading' = TRUE
    /\ stateDescription' = NewFiltersState(stateDescription, filters)
    /\ UNCHANGED datasetStatsLoading

\* set(filterStages, filters)
SetFilterStages(filters) ==
    /\ nSent < MaxSent
    /\ selCall' = [op |-> "filterStages", path |-> "", value |-> FUndefined]
    /\ FilterStagesSetter(filters)
    /\ UNCHANGED <<sockVars, lfVars, cbVars, indVars>>

\* The two early returns of the filterStage setter.
FilterStageReturns(filters, path, value) ==
    \/ Falsy(value) /\ Falsy(Lookup(filters, path))
    \/ SameJson(value, Lookup(filters, path))

\* The filters the filterStage setter hands to filterStages.
FilterStageResult(filters, path, value) ==
    IF Falsy(value) /\ path \in DOMAIN filters
    THEN Delete(filters, path)
    ELSE Assign(filters, path, value)

\* set(filterStage(path), value)
SetFilterStage(path, value) ==
    /\ selCall' = [op |-> "filterStage", path |-> path, value |-> value]
    /\ IF FilterStageReturns(stateDescription.filters, path, value)
       THEN UNCHANGED <<stateDescription, datasetStatsLoading,
                        extendedDatasetStatsLoading, nSent, lastMsg>>
       ELSE /\ nSent < MaxSent
            /\ FilterStagesSetter(FilterStageResult(stateDescription.filters, path, value))
    /\ UNCHANGED <<sockVars, lfVars, cbVars, indVars>>

SelNext ==
    \/ \E stages \in Views : SetView(stages)
    \/ \E filters \in FilterMaps : SetFilterStages(filters)
    \/ \E path \in Paths, value \in FilterValues : SetFilterStage(path, value)

----------------------------------------------------------------------------
(* Specifications *)

\* The other parts at rest.
LfIdle ==
    /\ lfRange = <<Null, Null>>
    /\ lfNone = TRUE
    /\ lfInclude = <<>>
    /\ lfSample = [confidence |-> Undefined, label |-> "cat"]
    /\ lfResult = NotApplied

IndIdle ==
    /\ mainSize = <<0, 0>>
    /\ y = 0
    /\ indStep = "mount"
    /\ DragInit

SocketInit == SockInit /\ SelInit /\ LfIdle /\ CbInit /\ IndIdle

SocketSpec == SocketInit /\ [][SockNext]_vars

SelectorInit == SockInit /\ SelInit /\ LfIdle /\ CbInit /\ IndIdle

SelectorSpec == SelectorInit /\ [][SelNext]_vars

FilterInit == SockInit /\ SelInit /\ LfInit /\ CbInit /\ IndIdle

FilterSpec == FilterInit /\ [][LfNext]_vars

BoundsInit == SockInit /\ SelInit /\ LfIdle /\ CbInit /\ IndIdle

BoundsSpec == BoundsInit /\ [][CbNext]_vars

IndicatorInit == SockInit /\ SelInit /\ LfIdle /\ CbInit /\ IndInit

IndicatorSpec == IndicatorInit /\ [][IndNext]_vars

\* All parts side by side.  The parts share no state, so each claim is
\* settled under the specification of its own part.
Init == SockInit /\ SelInit /\ LfInit /\ CbInit /\ IndInit

Next == SockNext \/ SelNext \/ LfNext \/ CbNext \/ IndNext

Spec == Init /\ [][Next]_vars

----------------------------------------------------------------------------
(* Properties *)

\* C1, as stated: the polling delay is one constant, however many polls
\* failed: the timeout and the period of the scheduled timer are always the
\* delay the socket was constructed with.
C1_FixedDelay == timeout = initTimeout /\ timers[interval] = initTimeout

\* C1, amended: the backoff is a capped doubling.  Every run of gather()'s
\* catch callback sets the timeout to twice the one before, at most 5000 ms,
\* and schedules the next polls with that period.
C1_CappedDoubling ==
    [][step' = "catch" =>
          /\ timeout' = (IF 2 * timeout <= 5000 THEN 2 * timeout ELSE 5000)
          /\ timers'[interval'] = timeout']_vars

\* Two failures in a row brought the delay from 2000 ms to the cap.
C1_Witness == step = "catch" /\ timeout = 5000 /\ timers[interval] = 5000

C6_SuccessOpens == step = "gatherOk" => readyState = OPEN

\* C7: the timeout is between 2000 ms and 5000 ms, and is openTimeout
\* whenever the socket is OPEN.
C7_TimeoutRange ==
    /\ timeout >= 2000
    /\ timeout <= 5000
    /\ readyState = OPEN => timeout = openTimeout

\* The socket is OPEN again after a failure had raised the timeout.
C7_Witness ==
    /\ readyState = OPEN
    /\ evlog = <<"close", "open">>
    /\ timeout = 2000

\* C8: exactly one interval timer is active, it is the one this.interval
\* names, and its period is the current timeout.
C8_OneTimer ==
    /\ Cardinality(DOMAIN timers) = 1
    /\ interval \in DOMAIN timers
    /\ timers[interval] = timeout

\* The timer was replaced at least three times while polls overlapped.
C8_Witness ==
    /\ readyState = OPEN
    /\ evlog = <<"close", "open">>
    /\ polls > 0
    /\ rejected > 0

\* The confidence of the C2 sample as a number (null counts as 0).
C2_Value(x) == IF x.k = "num" THEN x.v ELSE 0

\* C2: the predicate accepts s exactly when (the confidence is within
\* [range[0] - 0.005, range[1] + 0.005] or (the flag is set and the
\* confidence is undefined)) and (the include list is empty or holds the
\* label).  null, in the range or as the confidence, counts as 0; an
\* undefined confidence is within no range.
C2_FilterPredicate ==
    lfResult.done =>
        (lfResult.val <=>
            /\ \/ /\ lfSample.confidence.k \in {"num", "null"}
                  /\ C2_Value(lfRange[1]) - 5 <= C2_Value(lfSample.confidence)
                  /\ C2_Value(lfSample.confidence) <= C2_Value(lfRange[2]) + 5
               \/ lfNone /\ lfSample.confidence.k = "undefined"
            /\ \/ lfInclude = <<>>
               \/ lfSample.label \in {lfInclude[i] : i \in DOMAIN lfInclude})

\* An object without a confidence passed a filter with an include list.
C2_Witness ==
    /\ lfResult.done
    /\ lfResult.val
    /\ lfSample.confidence = Undefined
    /\ lfInclude # <<>>

\* The entries of datasetStats that labelConfidenceBounds(label) matches.
C3_Matches(label) ==
    {i \in DOMAIN datasetStats :
        datasetStats[i].name = label /\ datasetStats[i].cls = CONFIDENCE_BOUNDS_CLS}

\* What C3 states for reported bounds b.
C3_Expected(b) ==
    IF b = <<Null, Null>> THEN <<Null, Null>>
    ELSE <<IF b[1].v >= 0 THEN Num(0) ELSE Num(b[1].v - 10),
           IF b[2].v <= 1000 THEN Num(1000) ELSE Num(b[2].v + 10)>>

\* C3: labelConfidenceBounds(label) is [null, null] without a matching
\* entry or with bounds [null, null]; else the lower result is 0 when
\* lo >= 0 and lo - 0.01 otherwise, the upper one 1 when hi <= 1 and
\* hi + 0.01 otherwise.
C3_ClampedBounds ==
    cbResult.done =>
        LET m == C3_Matches(cbResult.label)
        IN  IF m = {} THEN cbResult.val = <<Null, Null>>
            ELSE LET last == CHOOSE i \in m : \A j \in m : j <= i
                 IN  cbResult.val = C3_Expected(datasetStats[last].bounds)

\* C4, as stated: after a pointer move, 0 <= y <= mainSize[1] - 35.
C4_HandleInTrack ==
    indStep = "move" => 0 <= y /\ y <= mainSize[2] - 35

\* C4, amended: after a pointer move y <= mainSize[1] - 35; y >= 0 when
\* the main area is at least 35 high, and y = mainSize[1] - 35 < 0 when
\* it is not.
C4_HandleClamped ==
    indStep = "move" =>
        /\ y <= mainSize[2] - 35
        /\ mainSize[2] >= 35 => y >= 0
        /\ mainSize[2] < 35 => y = mainSize[2] - 35

\* The pointer went below the track: the handle sits at its lower end.
C4_Witness == indStep = "move" /\ mainSize[2] > 35 /\ y = mainSize[2] - 35

\* The filters a sent message carries.
C9_FiltersOf(msg) ==
    IF msg.type = "update" THEN msg.data.state.filters ELSE msg.data.filters

\* C9: a setter call that changes stateDescription sends exactly one
\* message, 'update' with the whole new state or 'filters_update' with the
\* new filters; the filters of the last message sent are
\* stateDescription.filters; the view setter keeps the filters, the filter
\* setters keep the view.
C9_MessagesFollowState ==
    [][/\ stateDescription' # stateDescription =>
             /\ nSent' = nSent + 1
             /\ \/ /\ lastMsg'.type = "update"
                   /\ lastMsg'.data = [state |-> stateDescription']
                \/ /\ lastMsg'.type = "filters_update"
                   /\ lastMsg'.data = [filters |-> stateDescription'.filters]
       /\ nSent' > 0 => C9_FiltersOf(lastMsg') = stateDescription'.filters
       /\ selCall'.op = "view" =>
             stateDescription'.filters = stateDescription.filters
       /\ selCall'.op \in {"filterStages", "filterStage"} =>
             stateDescription'.view = stateDescription.view]_vars

\* The view was set while filters were stored, after an earlier message.
C9_Witness ==
    /\ nSent >= 2
    /\ lastMsg.type = "update"
    /\ stateDescription.view # <<>>
    /\ DOMAIN stateDescription.filters # {}

\* C10: a filterStage(path) call whose value is null or undefined while no
\* filter is stored for path, or whose value has the JSON text of the
\* stored filter, sends nothing and leaves stateDescription and
\* extendedDatasetStatsLoading as they were.
C10_NoOpSetter ==
    [][(/\ selCall'.op = "filterStage"
        /\ LET stored == Lookup(stateDescription.filters, selCall'.path)
           IN  \/ selCall'.value.t # "object" /\ stored.t # "object"
               \/ JsonStringify(selCall'.value) = JsonStringify(stored))
       => UNCHANGED <<stateDescription, extendedDatasetStatsLoading,
                      nSent, lastMsg>>]_vars

\* A call set a filter to another object with the same JSON text.
C10_Witness ==
    /\ selCall.op = "filterStage"
    /\ selCall.value.t = "object"
    /\ selCall.value # Lookup(stateDescription.filters, selCall.path)
    /\ JsonStringify(selCall.value) =
           JsonStringify(Lookup(stateDescription.filters, selCall.path))

\* C11: isDraggingIndicator is true exactly while a drag of the Indicator
\* is in progress: false at first, true after every onDragStart, false
\* again after the matching onDragEnd, and no pointer move changes it.
C11_FlagTracksDrag ==
    [][/\ indStep' = "dragStart" => isDraggingIndicator'
       /\ indStep' = "dragEnd" => ~isDraggingIndicator'
       /\ indStep' = "move" => isDraggingIndicator' = isDraggingIndicator]_vars

====
